---- MODULE Spec2Model ----
(***************************************************************************)
(* A model of fmp_mcp_server.py: the tool catalog, the shared request      *)
(* helper fmp_api_request and the life of one tool invocation (call, the   *)
(* single suspend point at client.get, resumption with the upstream's      *)
(* answer, return to the caller).                                          *)
(***************************************************************************)
EXTENDS Integers, Sequences, FiniteSets, TLC

VARIABLES
    environ,          \* the process environment's FMP_API_KEY at startup
    DEFAULT_API_KEY,  \* module global, read once from the environment
    pc,               \* per caller: "idle", "awaiting", "returned", "raised"
    tool,             \* per caller: name of the function being invoked
    passed,           \* per caller: the arguments the caller supplied
    request,          \* per caller: the outbound request of the invocation
    gets,             \* per caller: GET requests issued by the invocation
    waited,           \* per caller: time units spent suspended in client.get
    received,         \* per caller: what client.get was resumed with
    result            \* per caller: value returned / exception raised

vars == <<environ, DEFAULT_API_KEY, pc, tool, passed, request, gets, waited,
          received, result>>

----------------------------------------------------------------------------
(* Bounds of the model.                                                    *)

\* Caller-supplied integers (limit, page) range over 0..MaxInt.
MaxInt == 1

----------------------------------------------------------------------------
(* Python values.  Every value is a tagged tuple, so that values of        *)
(* different Python types are comparable (and different).                  *)

StrV(s) == <<"str", s>>
IntV(n) == <<"int", n>>
BoolV(b) == <<"bool", b>>
None == <<"None">>
\* a dict keeps its items in insertion order: a sequence of <<key, value>>
Dict(items) == <<"dict", items>>
List(items) == <<"list", items>>
\* an f-string / str(e) text assembled from the listed parts
Text(parts) == <<"text", parts>>

\* marks an argument the caller did not supply (not a Python value)
Absent == <<"absent">>
\* marks a parameter without default in a signature
Required == <<"required">>

\* bool(v) for the values the program tests: None, "", 0 and {} are falsy
Truthy(v) ==
    /\ v # None
    /\ v # StrV("")
    /\ v # IntV(0)
    /\ v # Dict(<<>>)

\* a or b
Or(a, b) == IF Truthy(a) THEN a ELSE b

Items(d) == d[2]
Keys(d) == {Items(d)[i][1] : i \in 1..Len(Items(d))}
HasKey(d, k) == k \in Keys(d)
\* d[k]
GetItem(d, k) == Items(d)[CHOOSE i \in 1..Len(Items(d)) : Items(d)[i][1] = k][2]
\* d[k] = v : overwrite in place when the key exists, else append
SetItem(d, k, v) ==
    IF HasKey(d, k)
    THEN Dict([i \in 1..Len(Items(d)) |->
                 IF Items(d)[i][1] = k THEN <<k, v>> ELSE Items(d)[i]])
    ELSE Dict(Append(Items(d), <<k, v>>))
\* number of items of d stored under key k
CountKey(d, k) == Cardinality({i \in 1..Len(Items(d)) : Items(d)[i][1] = k})

----------------------------------------------------------------------------
(* Module constants and the pre-request half of fmp_api_request.           *)

FMP_BASE_URL == "https://financialmodelingprep.com/stable"

\* the timeout handed to client.get, in time units
TIMEOUT == 30

\* os.environ.get("FMP_API_KEY", "demo"): env is Absent or the variable's value
EnvironGet(env, default) == IF env = Absent THEN default ELSE env

\* An endpoint is its text cut into tokens, "/" being a token of its own:
\* "news/stock" is <<"news", "/", "stock">>.
RECURSIVE LStrip(_)
\* endpoint.lstrip('/')
LStrip(endpoint) ==
    IF endpoint # <<>> /\ Head(endpoint) = "/"
    THEN LStrip(Tail(endpoint))
    ELSE endpoint

\* url = f"{FMP_BASE_URL}/{endpoint.lstrip('/')}"
UrlOf(endpoint) == <<FMP_BASE_URL, "/">> \o LStrip(endpoint)

\* (mutant) an 'apikey' entry of the caller's mapping is kept
PrepareParamsSetDefault(params, api_key, default_key) ==
    IF Truthy(params) /\ HasKey(params, "apikey")
    THEN params
    ELSE SetItem(IF Truthy(params) THEN params ELSE Dict(<<>>),
                 "apikey", Or(api_key, default_key))

\* params = params.copy() if params else {};  params["apikey"] = api_key or DEFAULT_API_KEY
PrepareParams(params, api_key, default_key) ==
    SetItem(IF Truthy(params) THEN params ELSE Dict(<<>>),
            "apikey", Or(api_key, default_key))

\* the GET that client.get(url, params=params, timeout=30.0) puts on the wire
BuildRequest(endpoint, params, api_key, default_key) ==
    [method  |-> "GET",
     url     |-> UrlOf(endpoint),
     params  |-> PrepareParams(params, api_key, default_key),
     timeout |-> TIMEOUT]

NoRequest == [method |-> "none"]

----------------------------------------------------------------------------
(* The tool catalog.  Each tool operator takes its bound arguments (a       *)
(* function from parameter name to value) and gives the call it makes to   *)
(* fmp_api_request: the endpoint and the parameter mapping.  No tool       *)
(* passes api_key.                                                         *)

HelperCall(endpoint, params) == [endpoint |-> endpoint, params |-> params]

\* if v: params[key] = v
SetIfTruthy(d, key, v) == IF Truthy(v) THEN SetItem(d, key, v) ELSE d
\* (mutant) the limit is tested for truth, like the dates
SetIfNotNoneByTruth(d, key, v) == IF Truthy(v) THEN SetItem(d, key, v) ELSE d
\* if v is not None: params[key] = v
SetIfNotNone(d, key, v) == IF v # None THEN SetItem(d, key, v) ELSE d

StatementParams(a) ==
    Dict(<< <<"symbol", a.symbol>>, <<"limit", a.limit>>, <<"period", a.period>> >>)

company_profile(a) ==
    HelperCall(<<"profile">>, Dict(<< <<"symbol", a.symbol>> >>))

income_statement(a) == HelperCall(<<"income-statement">>, StatementParams(a))

\* (mutant) a copy of income_statement that kept its endpoint
balance_sheet_income_path(a) == HelperCall(<<"income-statement">>, StatementParams(a))

balance_sheet(a) == HelperCall(<<"balance-sheet-statement">>, StatementParams(a))

cash_flow(a) == HelperCall(<<"cash-flow-statement">>, StatementParams(a))

financial_ratios(a) == HelperCall(<<"ratios">>, StatementParams(a))

\* (mutant) the date range is put in the mapping whether given or not
WithDateRangeAlways(d, a) ==
    SetItem(SetItem(d, "from", a.date_from), "to", a.date_to)

\* if date_from: params["from"] = date_from;  if date_to: params["to"] = date_to
WithDateRange(d, a) ==
    SetIfTruthy(SetIfTruthy(d, "from", a.date_from), "to", a.date_to)

historical_price_eod_full(a) ==
    HelperCall(<<"historical-price-eod", "/", "full">>,
               WithDateRange(Dict(<< <<"symbol", a.symbol>> >>), a))

earnings_call_transcript(a) ==
    HelperCall(<<"earning-call-transcript">>,
               SetIfNotNone(Dict(<< <<"symbol", a.symbol>>, <<"year", a.year>>,
                                    <<"quarter", a.quarter>> >>),
                            "limit", a.limit))

economic_indicators(a) ==
    HelperCall(<<"economic-indicators">>,
               WithDateRange(Dict(<< <<"name", a.name>> >>), a))

economic_calendar(a) ==
    HelperCall(<<"economic-calendar">>, WithDateRange(Dict(<<>>), a))

stock_news_latest(a) ==
    HelperCall(<<"news", "/", "stock-latest">>,
               WithDateRange(Dict(<< <<"page", a.page>>, <<"limit", a.limit>> >>), a))

stock_news_search(a) ==
    HelperCall(<<"news", "/", "stock">>,
               WithDateRange(Dict(<< <<"symbols", a.symbols>>, <<"page", a.page>>,
                                     <<"limit", a.limit>> >>), a))

insider_trading_latest(a) ==
    HelperCall(<<"insider-trading", "/", "latest">>,
               SetIfTruthy(Dict(<< <<"page", a.page>>, <<"limit", a.limit>> >>),
                           "date", a.date))

ping == Dict(<< <<"ok", BoolV(TRUE)>>, <<"base_url", StrV(FMP_BASE_URL)>> >>)

when_should_i_use_fmp ==
    Dict(<<
      <<"use_when", List(<<
          StrV("You need fundamentals/ratios/statements for a ticker"),
          StrV("You need OHLCV daily prices"),
          StrV("You need earnings transcripts text"),
          StrV("You need macro indicators or economic calendar"),
          StrV("You need latest stock news or insider trades") >>)>>,
      <<"avoid_when", List(<<
          StrV("Trading/execution actions"),
          StrV("Full SEC filings beyond transcripts"),
          StrV("Realtime tick/quote level market data") >>)>>,
      <<"quick_map", Dict(<<
          <<"snapshot", StrV("company_profile")>>,
          <<"pnl", StrV("income_statement")>>,
          <<"balance", StrV("balance_sheet")>>,
          <<"cash", StrV("cash_flow")>>,
          <<"ratios", StrV("financial_ratios")>>,
          <<"prices", StrV("historical_price_eod_full")>>,
          <<"transcript", StrV("earnings_call_transcript")>>,
          <<"macro", StrV("economic_indicators")>>,
          <<"calendar", StrV("economic_calendar")>>,
          <<"news", StrV("stock_news_latest / stock_news_search")>>,
          <<"insiders", StrV("insider_trading_latest")>> >>)>> >>)

NetworkTools ==
    {"company_profile", "income_statement", "balance_sheet", "cash_flow",
     "financial_ratios", "historical_price_eod_full", "earnings_call_transcript",
     "economic_indicators", "economic_calendar", "stock_news_latest",
     "stock_news_search", "insider_trading_latest"}

StaticTools == {"ping", "when_should_i_use_fmp"}

\* the body of network tool t run on the bound arguments a
ToolBody(t, a) ==
    CASE t = "company_profile"           -> company_profile(a)
      [] t = "income_statement"          -> income_statement(a)
      [] t = "balance_sheet"             -> balance_sheet(a)
      [] t = "cash_flow"                 -> cash_flow(a)
      [] t = "financial_ratios"          -> financial_ratios(a)
      [] t = "historical_price_eod_full" -> historical_price_eod_full(a)
      [] t = "earnings_call_transcript"  -> earnings_call_transcript(a)
      [] t = "economic_indicators"       -> economic_indicators(a)
      [] t = "economic_calendar"         -> economic_calendar(a)
      [] t = "stock_news_latest"         -> stock_news_latest(a)
      [] t = "stock_news_search"         -> stock_news_search(a)
      [] t = "insider_trading_latest"    -> insider_trading_latest(a)

\* (mutant) the static answers report the configured key
StaticBodyWithKey(t) ==
    CASE t = "ping"                  -> SetItem(ping, "api_key", DEFAULT_API_KEY)
      [] t = "when_should_i_use_fmp" ->
            SetItem(when_should_i_use_fmp, "api_key", DEFAULT_API_KEY)

\* the body of static tool t
StaticBody(t) ==
    CASE t = "ping"                  -> ping
      [] t = "when_should_i_use_fmp" -> when_should_i_use_fmp

\* The def lines: each parameter with its default (Required when it has none).
StatementSignature ==
    << <<"symbol", Required>>, <<"limit", IntV(5)>>, <<"period", StrV("annual")>> >>

Signature(t) ==
    CASE t = "company_profile" -> << <<"symbol", Required>> >>
      [] t \in {"income_statement", "balance_sheet", "cash_flow", "financial_ratios"} ->
            StatementSignature
      [] t = "historical_price_eod_full" ->
            << <<"symbol", Required>>, <<"date_from", None>>, <<"date_to", None>> >>
      [] t = "earnings_call_transcript" ->
            << <<"symbol", Required>>, <<"year", Required>>, <<"quarter", Required>>,
               <<"limit", None>> >>
      [] t = "economic_indicators" ->
            << <<"name", Required>>, <<"date_from", None>>, <<"date_to", None>> >>
      [] t = "economic_calendar" ->
            << <<"date_from", None>>, <<"date_to", None>> >>
      [] t = "stock_news_latest" ->
            << <<"page", IntV(0)>>, <<"limit", IntV(20)>>, <<"date_from", None>>,
               <<"date_to", None>> >>
      [] t = "stock_news_search" ->
            << <<"symbols", Required>>, <<"page", IntV(0)>>, <<"limit", IntV(20)>>,
               <<"date_from", None>>, <<"date_to", None>> >>
      [] t = "insider_trading_latest" ->
            << <<"page", IntV(0)>>, <<"limit", IntV(100)>>, <<"date", None>> >>
      [] t \in StaticTools -> <<>>
      [] t = "fmp_api_request" ->
            << <<"endpoint", Required>>, <<"params", None>>, <<"api_key", None>> >>

ParamNames(t) == {Signature(t)[i][1] : i \in 1..Len(Signature(t))}
DefaultOf(t, n) ==
    Signature(t)[CHOOSE i \in 1..Len(Signature(t)) : Signature(t)[i][1] = n][2]
OptionalParams(t) == {n \in ParamNames(t) : DefaultOf(t, n) # Required}

\* Python's argument binding: an argument not supplied takes its default
Bind(t, given) ==
    [n \in ParamNames(t) |-> IF given[n] = Absent THEN DefaultOf(t, n) ELSE given[n]]

----------------------------------------------------------------------------
(* The upstream, as client.get sees it, and the post-request half of       *)
(* fmp_api_request: the try block and its three except clauses.            *)

Return(v) == [kind |-> "return", value |-> v]
Raise(e) == [kind |-> "raise", exc |-> e]

\* The classes an exception class derives from (itself included).
Mro(class) ==
    CASE class = "HTTPStatusError" -> {"HTTPStatusError", "HTTPError", "Exception"}
      [] class = "ConnectError" ->
            {"ConnectError", "NetworkError", "TransportError", "RequestError",
             "HTTPError", "Exception"}
      [] class = "ReadTimeout" ->
            {"ReadTimeout", "TimeoutException", "TransportError", "RequestError",
             "HTTPError", "Exception"}
      [] class = "JSONDecodeError" -> {"JSONDecodeError", "ValueError", "Exception"}
      [] class = "RuntimeError" -> {"RuntimeError", "Exception"}

IsInstance(e, class) == class \in Mro(e.class)

\* A response body as bytes: the encoding of a JSON value, or bytes that are
\* no JSON text.
Encoded(v) == <<"json-bytes", v>>
Garbage == <<"bytes", "<html>Service Unavailable</html>">>

\* (mutant) the parsed body is wrapped with a success flag and a count
JsonLoadsWrapped(body) ==
    IF body[1] = "json-bytes"
    THEN Return(Dict(<< <<"success", BoolV(TRUE)>>, <<"data", body[2]>>,
                        <<"count", IntV(IF body[2][1] = "list" THEN Len(body[2][2]) ELSE 1)>> >>))
    ELSE Raise([class |-> "JSONDecodeError", status |-> 0,
                text |-> StrV("Expecting value: line 1 column 1 (char 0)")])

\* json.loads on the body
JsonLoads(body) ==
    IF body[1] = "json-bytes"
    THEN Return(body[2])
    ELSE Raise([class |-> "JSONDecodeError", status |-> 0,
                text |-> StrV("Expecting value: line 1 column 1 (char 0)")])

\* (mutant) only 4xx and 5xx count as errors
IsSuccessBelow400(status) == status < 400

\* Response.is_success
IsSuccess(status) == 200 <= status /\ status <= 299

ErrorType(status) ==
    CASE status \div 100 = 1 -> "Informational response"
      [] status \div 100 = 3 -> "Redirect response"
      [] status \div 100 = 4 -> "Client error"
      [] status \div 100 = 5 -> "Server error"
      [] OTHER -> "Invalid status code"

\* str(url)
UrlText(url) == Text([i \in 1..Len(url) |-> StrV(url[i])])

\* resp.raise_for_status(): the message names the status and the request's URL,
\* query string included
RaiseForStatus(req, resp) ==
    IF IsSuccess(resp.status)
    THEN Return(None)
    ELSE Raise([class |-> "HTTPStatusError", status |-> resp.status,
                text |-> Text(<<StrV(ErrorType(resp.status)), IntV(resp.status),
                                UrlText(req.url), req.params>>)])

\* await client.get(...): a response, or the exception the transport raises
ClientGet(outcome) ==
    CASE outcome.kind = "response" -> Return(outcome)
      [] outcome.kind = "connect_error" ->
            Raise([class |-> "ConnectError", status |-> 0,
                   text |-> StrV("All connection attempts failed")])
      [] outcome.kind = "timeout" ->
            Raise([class |-> "ReadTimeout", status |-> 0, text |-> StrV("")])
      [] outcome.kind = "exception" ->
            Raise([class |-> "RuntimeError", status |-> 0,
                   text |-> StrV("Event loop is closed")])

\* (mutant) the body is parsed before the status is looked at
TryBlockJsonFirst(req, outcome) ==
    LET got == ClientGet(outcome) IN
    IF got.kind = "raise" THEN got
    ELSE LET parsed == JsonLoads(got.value.body) IN
         IF parsed.kind = "raise" THEN parsed
         ELSE LET checked == RaiseForStatus(req, got.value) IN
              IF checked.kind = "raise" THEN checked ELSE parsed

\* the try block: get, raise_for_status, return resp.json()
TryBlock(req, outcome) ==
    LET got == ClientGet(outcome) IN
    IF got.kind = "raise" THEN got
    ELSE LET checked == RaiseForStatus(req, got.value) IN
         IF checked.kind = "raise" THEN checked
         ELSE JsonLoads(got.value.body)

\* {"error": f"HTTP error: {e.response.status_code}", "message": str(e)}
HttpErrorEnvelope(e) ==
    Dict(<< <<"error", StrV("HTTP error: " \o ToString(e.status))>>,
            <<"message", e.text>> >>)
\* {"error": "Request error", "message": str(e)}
RequestErrorEnvelope(e) ==
    Dict(<< <<"error", StrV("Request error")>>, <<"message", e.text>> >>)
\* (mutant) the catch-all clause reports under another key
UnknownErrorEnvelopeAsDetail(e) ==
    Dict(<< <<"detail", StrV("Unknown error")>>, <<"message", e.text>> >>)
\* {"error": "Unknown error", "message": str(e)}
UnknownErrorEnvelope(e) ==
    Dict(<< <<"error", StrV("Unknown error")>>, <<"message", e.text>> >>)

\* (mutant) the last clause, except Exception, is missing
ExceptClausesNoCatchAll(attempt) ==
    IF attempt.kind = "return" THEN attempt
    ELSE IF IsInstance(attempt.exc, "HTTPStatusError")
         THEN Return(HttpErrorEnvelope(attempt.exc))
    ELSE IF IsInstance(attempt.exc, "RequestError")
         THEN Return(RequestErrorEnvelope(attempt.exc))
    ELSE attempt

\* (mutant) the catch-all clause comes before except RequestError
ExceptClausesCatchAllEarly(attempt) ==
    IF attempt.kind = "return" THEN attempt
    ELSE IF IsInstance(attempt.exc, "HTTPStatusError")
         THEN Return(HttpErrorEnvelope(attempt.exc))
    ELSE IF IsInstance(attempt.exc, "Exception")
         THEN Return(UnknownErrorEnvelope(attempt.exc))
    ELSE IF IsInstance(attempt.exc, "RequestError")
         THEN Return(RequestErrorEnvelope(attempt.exc))
    ELSE attempt

\* the except clauses, tried in order
ExceptClauses(attempt) ==
    IF attempt.kind = "return" THEN attempt
    ELSE IF IsInstance(attempt.exc, "HTTPStatusError")
         THEN Return(HttpErrorEnvelope(attempt.exc))
    ELSE IF IsInstance(attempt.exc, "RequestError")
         THEN Return(RequestErrorEnvelope(attempt.exc))
    ELSE IF IsInstance(attempt.exc, "Exception")
         THEN Return(UnknownErrorEnvelope(attempt.exc))
    ELSE attempt

\* (mutant) the success payload is wrapped together with the query sent
ResumeEchoingParams(req, outcome) ==
    LET r == ExceptClauses(TryBlock(req, outcome)) IN
    IF TryBlock(req, outcome).kind = "return"
    THEN Return(Dict(<< <<"data", r.value>>, <<"params", req.params>> >>))
    ELSE r

\* what fmp_api_request gives its caller once client.get is resumed
Resume(req, outcome) == ExceptClauses(TryBlock(req, outcome))

\* (mutant) a transport failure sends the helper back to client.get
RetryOnRequestError(attempt) ==
    attempt.kind = "raise" /\ IsInstance(attempt.exc, "RequestError")

\* Every except clause returns and nothing loops around the try block: the
\* helper never goes back to client.get after an attempt.
Retry(attempt) == FALSE

----------------------------------------------------------------------------
(* The inputs: what callers supply and what the upstream answers.          *)

Callers == {"c1"}

\* FMP_API_KEY in the environment at startup: unset, empty, or a key
Environments == {Absent, StrV(""), StrV("sk-env")}

Ints == {IntV(i) : i \in 0..MaxInt}
Dates == {StrV(""), StrV("2024-01-31")}

\* the values a caller may supply for parameter n of t (Absent: not supplied)
ArgDomain(t, n) ==
    CASE n = "symbol"   -> {StrV("AAPL"), StrV("MSFT")}
      [] n = "symbols"  -> {StrV("AAPL,MSFT")}
      [] n = "name"     -> {StrV("GDP")}
      [] n = "year"     -> {IntV(2024)}
      [] n = "quarter"  -> {IntV(3)}
      [] n = "period"   -> {Absent, StrV("quarter")}
      [] n \in {"limit", "page"} ->
            IF DefaultOf(t, n) = None THEN {Absent, None} \cup Ints
            ELSE {Absent} \cup Ints
      [] n \in {"date_from", "date_to", "date"} -> {Absent, None} \cup Dates
      [] n = "endpoint" -> {<<"profile">>, <<"/", "profile">>}
      [] n = "params"   ->
            {Absent, None, Dict(<<>>),
             Dict(<< <<"symbol", StrV("AAPL")>> >>),
             Dict(<< <<"apikey", StrV("sk-caller")>>, <<"symbol", StrV("AAPL")>> >>)}
      [] n = "api_key"  -> {Absent, None, StrV(""), StrV("sk-arg")}

\* the argument tuples a caller may invoke t with
Given(t) ==
    LET vals == UNION {ArgDomain(t, n) : n \in ParamNames(t)} IN
    {g \in [ParamNames(t) -> vals] : \A n \in ParamNames(t) : g[n] \in ArgDomain(t, n)}

StatusCodes == {101, 200, 204, 301, 404, 500}

JsonBodies ==
    {List(<<>>),
     List(<< Dict(<< <<"symbol", StrV("AAPL")>>, <<"price", IntV(190)>> >>) >>),
     Dict(<< <<"error", StrV("Limit Reach")>> >>)}

Bodies == {Encoded(v) : v \in JsonBodies} \cup {Garbage}

\* what client.get can be resumed with before the timeout expires
Outcomes ==
    [kind : {"response"}, status : StatusCodes, body : Bodies]
        \cup {[kind |-> "connect_error"], [kind |-> "exception"]}

TimedOut == [kind |-> "timeout"]
NoOutcome == [kind |-> "none"]
NoResult == [kind |-> "none"]
NoArgs == <<>>

----------------------------------------------------------------------------
(* The state machine.                                                      *)

\* the module is imported (the key is read), the callers in P have not called yet
InitFor(P) ==
    /\ environ \in Environments
    /\ DEFAULT_API_KEY = EnvironGet(environ, StrV("demo"))
    /\ pc = [p \in P |-> "idle"]
    /\ tool = [p \in P |-> "none"]
    /\ passed = [p \in P |-> NoArgs]
    /\ request = [p \in P |-> NoRequest]
    /\ gets = [p \in P |-> 0]
    /\ waited = [p \in P |-> 0]
    /\ received = [p \in P |-> NoOutcome]
    /\ result = [p \in P |-> NoResult]

Init == InitFor(Callers)

RECURSIVE Overlay(_, _)
\* (mutant helper) base updated with the items of the sequence items
Overlay(base, items) ==
    IF items = <<>> THEN base
    ELSE Overlay(SetItem(base, Head(items)[1], Head(items)[2]), Tail(items))

\* (mutant) the parameter mapping is one object shared by the invocations in
\* flight: the entries another invocation wrote are still in it
SuspendSharedParams(p, call, api_key) ==
    LET others == {q \in DOMAIN pc : q # p /\ pc[q] = "awaiting"}
        own == IF Truthy(call.params) THEN call.params ELSE Dict(<<>>)
        shared == IF others = {} THEN own
                  ELSE Overlay(request[CHOOSE q \in others : TRUE].params, Items(own)) IN
    /\ request' = [request EXCEPT ![p] =
                     BuildRequest(call.endpoint, shared, api_key, DEFAULT_API_KEY)]
    /\ gets' = [gets EXCEPT ![p] = @ + 1]
    /\ waited' = [waited EXCEPT ![p] = 0]
    /\ pc' = [pc EXCEPT ![p] = "awaiting"]

\* fmp_api_request up to its suspend point: the request goes out
Suspend(p, call, api_key) ==
    /\ request' = [request EXCEPT ![p] =
                     BuildRequest(call.endpoint, call.params, api_key, DEFAULT_API_KEY)]
    /\ gets' = [gets EXCEPT ![p] = @ + 1]
    /\ waited' = [waited EXCEPT ![p] = 0]
    /\ pc' = [pc EXCEPT ![p] = "awaiting"]

\* the call fmp_api_request(endpoint, params, api_key) that invoking t with
\* the arguments given comes to
CallMade(t, given) ==
    IF t = "fmp_api_request"
    THEN LET a == Bind(t, given) IN
         [call |-> HelperCall(a.endpoint, a.params), api_key |-> a.api_key]
    ELSE [call |-> ToolBody(t, Bind(t, given)), api_key |-> None]

\* caller p invokes t (a network tool, or fmp_api_request itself) with given
Invoke(p, t, given) ==
    /\ tool' = [tool EXCEPT ![p] = t]
    /\ passed' = [passed EXCEPT ![p] = given]
    /\ Suspend(p, CallMade(t, given).call, CallMade(t, given).api_key)
    /\ UNCHANGED <<environ, DEFAULT_API_KEY, received, result>>

\* a caller invokes a network tool
CallTool(p) ==
    /\ pc[p] = "idle"
    /\ \E t \in NetworkTools : \E given \in Given(t) : Invoke(p, t, given)

\* a caller invokes fmp_api_request itself
CallHelper(p) ==
    /\ pc[p] = "idle"
    /\ \E given \in Given("fmp_api_request") : Invoke(p, "fmp_api_request", given)

\* a caller invokes ping or when_should_i_use_fmp
CallStatic(p) ==
    /\ pc[p] = "idle"
    /\ \E t \in StaticTools :
         /\ tool' = [tool EXCEPT ![p] = t]
         /\ result' = [result EXCEPT ![p] = Return(StaticBody(t))]
    /\ passed' = [passed EXCEPT ![p] = NoArgs]
    /\ pc' = [pc EXCEPT ![p] = "returned"]
    /\ UNCHANGED <<environ, DEFAULT_API_KEY, request, gets, waited, received>>

\* a time unit passes while the invocation is suspended in client.get
Tick(p) ==
    /\ pc[p] = "awaiting"
    /\ waited[p] < request[p].timeout
    /\ waited' = [waited EXCEPT ![p] = @ + 1]
    /\ UNCHANGED <<environ, DEFAULT_API_KEY, pc, tool, passed, request, gets,
                   received, result>>

\* client.get is resumed with outcome; the rest of fmp_api_request runs
Complete(p, outcome) ==
    LET attempt == TryBlock(request[p], outcome)
        res == Resume(request[p], outcome) IN
    /\ received' = [received EXCEPT ![p] = outcome]
    /\ IF Retry(attempt)
       THEN /\ gets' = [gets EXCEPT ![p] = @ + 1]
            /\ waited' = [waited EXCEPT ![p] = 0]
            /\ UNCHANGED <<pc, result>>
       ELSE /\ result' = [result EXCEPT ![p] = res]
            /\ pc' = [pc EXCEPT ![p] = IF res.kind = "return" THEN "returned" ELSE "raised"]
            /\ waited' = [waited EXCEPT ![p] = 0]
            /\ UNCHANGED gets
    /\ UNCHANGED <<environ, DEFAULT_API_KEY, tool, passed, request>>

\* the upstream answers, or the transport fails, before the timeout
Deliver(p) ==
    /\ pc[p] = "awaiting"
    /\ waited[p] < request[p].timeout
    /\ \E outcome \in Outcomes : Complete(p, outcome)

\* nothing arrived within the timeout
Expire(p) ==
    /\ pc[p] = "awaiting"
    /\ waited[p] = request[p].timeout
    /\ Complete(p, TimedOut)

\* the caller has the value (or the exception); the invocation is over
Finish(p) ==
    /\ pc[p] \in {"returned", "raised"}
    /\ pc' = [pc EXCEPT ![p] = "idle"]
    /\ tool' = [tool EXCEPT ![p] = "none"]
    /\ passed' = [passed EXCEPT ![p] = NoArgs]
    /\ request' = [request EXCEPT ![p] = NoRequest]
    /\ gets' = [gets EXCEPT ![p] = 0]
    /\ received' = [received EXCEPT ![p] = NoOutcome]
    /\ result' = [result EXCEPT ![p] = NoResult]
    /\ UNCHANGED <<environ, DEFAULT_API_KEY, waited>>

Next ==
    \E p \in Callers :
        \/ CallTool(p)
        \/ CallHelper(p)
        \/ CallStatic(p)
        \/ Tick(p)
        \/ Deliver(p)
        \/ Expire(p)
        \/ Finish(p)

Spec == Init /\ [][Next]_vars

\* Once suspended, an invocation is resumed: time passes, and the transport
\* either delivers or gives up at the timeout.
FairSpec ==
    Spec /\ \A p \in Callers : WF_vars(Tick(p) \/ Deliver(p) \/ Expire(p))

----------------------------------------------------------------------------
(* Concurrent invocations: the runtime may have several tool calls in      *)
(* flight at once, each suspended at its own client.get.  Two callers,     *)
(* each drawing its calls from a short list.                               *)

ConcCallers == {"c1", "c2"}

\* the network calls a concurrent caller makes: <<tool, arguments>>
ConcCalls ==
    {<<"company_profile", [symbol |-> StrV("AAPL")]>>,
     <<"historical_price_eod_full",
       [symbol |-> StrV("MSFT"), date_from |-> StrV("2024-01-31"), date_to |-> Absent]>>,
     <<"fmp_api_request",
       [endpoint |-> <<"/", "profile">>,
        params |-> Dict(<< <<"apikey", StrV("sk-caller")>>, <<"symbol", StrV("AAPL")>> >>),
        api_key |-> StrV("sk-arg")]>>}

ConcCall(p) ==
    /\ pc[p] = "idle"
    /\ \E c \in ConcCalls : Invoke(p, c[1], c[2])

ConcInit == InitFor(ConcCallers)

ConcNext ==
    \E p \in ConcCallers :
        \/ ConcCall(p)
        \/ CallStatic(p)
        \/ Tick(p)
        \/ Deliver(p)
        \/ Expire(p)
        \/ Finish(p)

ConcSpec == ConcInit /\ [][ConcNext]_vars

----------------------------------------------------------------------------
(* Vocabulary of the properties.                                           *)

IsNetworkCall(p) == tool[p] \in NetworkTools \cup {"fmp_api_request"}
HasReturned(p) == pc[p] = "returned"
\* the invocation's request is out (or has been answered)
HasRequested(p) == pc[p] \in {"awaiting", "returned", "raised"} /\ IsNetworkCall(p)

\* the upstream call failed: no response, a non-2xx status, or a body that is
\* no JSON text
OutcomeFails(o) ==
    \/ o.kind # "response"
    \/ o.status < 200
    \/ o.status > 299
    \/ o.body[1] # "json-bytes"

IsEnvelope(v) == v[1] = "dict" /\ Keys(v) = {"error", "message"}
IsHttpError(v, status) ==
    IsEnvelope(v) /\ GetItem(v, "error") = StrV("HTTP error: " \o ToString(status))
IsRequestError(v) == IsEnvelope(v) /\ GetItem(v, "error") = StrV("Request error")
IsUnknownError(v) == IsEnvelope(v) /\ GetItem(v, "error") = StrV("Unknown error")

\* value v holds the string k somewhere (as a dict value, a list item or a
\* part of a text)
RECURSIVE Mentions(_, _)
Mentions(v, k) ==
    CASE v[1] = "str"  -> v = k
      [] v[1] = "dict" -> \E i \in 1..Len(v[2]) : Mentions(v[2][i][2], k)
      [] v[1] \in {"list", "text"} -> \E i \in 1..Len(v[2]) : Mentions(v[2][i], k)
      [] OTHER -> FALSE

\* the query-parameter name a tool sends argument n under
QueryName(n) ==
    CASE n = "date_from" -> "from"
      [] n = "date_to"   -> "to"
      [] OTHER           -> n

----------------------------------------------------------------------------
(* C1.  Whatever the upstream does (failing status, connection failure,    *)
(* timeout, malformed body, another exception during the call), the        *)
(* invocation returns a value and never raises; when the upstream call     *)
(* failed, the value is a failure envelope of one of exactly three kinds:  *)
(* HTTP status error, request error, unknown error.                        *)
C1_NeverRaises ==
    \A p \in Callers :
        /\ pc[p] # "raised"
        /\ result[p].kind # "raise"
        /\ (HasReturned(p) /\ IsNetworkCall(p) /\ OutcomeFails(received[p])) =>
              /\ result[p].kind = "return"
              /\ \/ \E c \in StatusCodes : IsHttpError(result[p].value, c)
                 \/ IsRequestError(result[p].value)
                 \/ IsUnknownError(result[p].value)

\* a 200 response whose body is no JSON text came back as the unknown-error envelope
C1_Witness ==
    \E p \in Callers :
        /\ HasReturned(p)
        /\ tool[p] = "company_profile"
        /\ received[p] = [kind |-> "response", status |-> 200, body |-> Garbage]
        /\ IsUnknownError(result[p].value)

----------------------------------------------------------------------------
(* C2.  Every outbound request of fmp_api_request carries exactly one      *)
(* 'apikey' query parameter, whatever mapping the caller passed (none, or  *)
(* one that already has an 'apikey' entry).  Its value is the explicit     *)
(* api_key argument when a non-empty one is given, otherwise the           *)
(* process-wide key read at startup from FMP_API_KEY, which is "demo"      *)
(* when the variable is absent.                                            *)

\* the api_key argument of the invocation (tools never pass one)
ApiKeyArgument(p) ==
    IF tool[p] = "fmp_api_request" THEN passed[p]["api_key"] ELSE Absent

ProcessWideKey == IF environ = Absent THEN StrV("demo") ELSE environ

C2_OneApiKey ==
    \A p \in Callers :
        HasRequested(p) =>
            /\ request[p].method = "GET"
            /\ CountKey(request[p].params, "apikey") = 1
            /\ GetItem(request[p].params, "apikey") =
                  IF ApiKeyArgument(p) \notin {Absent, None, StrV("")}
                  THEN ApiKeyArgument(p)
                  ELSE ProcessWideKey

\* the caller's mapping already held an 'apikey' entry and an explicit key was given
C2_Witness ==
    \E p \in Callers :
        /\ pc[p] = "awaiting"
        /\ tool[p] = "fmp_api_request"
        /\ passed[p]["params"] # Absent
        /\ passed[p]["params"] # None
        /\ HasKey(passed[p]["params"], "apikey")
        /\ passed[p]["api_key"] = StrV("sk-arg")
        /\ GetItem(request[p].params, "apikey") = StrV("sk-arg")

\* C2 as first stated: the explicit api_key argument whenever one is given
\* (the empty string included).
C2_AsStated ==
    \A p \in Callers :
        HasRequested(p) =>
            /\ CountKey(request[p].params, "apikey") = 1
            /\ GetItem(request[p].params, "apikey") =
                  IF ApiKeyArgument(p) \notin {Absent, None}
                  THEN ApiKeyArgument(p)
                  ELSE ProcessWideKey

----------------------------------------------------------------------------
(* C3.  On success the returned value does not contain the API key that    *)
(* was sent on the outbound request, and a run that differs only in the    *)
(* key returns the same value.                                             *)

\* the keys a request can carry in this model
AllKeys == {StrV("demo"), StrV(""), StrV("sk-env"), StrV("sk-arg"), StrV("sk-other")}

\* the same request under another key
WithKey(req, k) == [req EXCEPT !.params = SetItem(@, "apikey", k)]

C3_NoKeyInSuccess ==
    \A p \in Callers :
        (HasReturned(p) /\ IsNetworkCall(p) /\ ~OutcomeFails(received[p])) =>
            /\ Mentions(request[p].params, GetItem(request[p].params, "apikey"))
            /\ ~Mentions(result[p].value, GetItem(request[p].params, "apikey"))
            /\ \A k \in AllKeys :
                  Resume(WithKey(request[p], k), received[p]) = result[p]

\* a successful call made under the environment's key
C3_Witness ==
    \E p \in Callers :
        /\ HasReturned(p)
        /\ tool[p] = "income_statement"
        /\ ~OutcomeFails(received[p])
        /\ GetItem(request[p].params, "apikey") = StrV("sk-env")
        /\ result[p].value[1] = "list"
        /\ Len(result[p].value[2]) = 1

----------------------------------------------------------------------------
(* C4.  Calling a tool without an optional argument whose default is None  *)
(* (date_from, date_to, date, and limit of earnings_call_transcript) sends *)
(* no key for it at all; an optional argument with a default value (limit, *)
(* period, page of the other tools) is sent with that default.  In         *)
(* particular historical_price_eod_full(symbol) sends only symbol and the  *)
(* authentication parameter.                                               *)
C4_OmittedOptionals ==
    \A p \in Callers :
        (HasRequested(p) /\ tool[p] \in NetworkTools) =>
            /\ \A n \in OptionalParams(tool[p]) :
                  passed[p][n] = Absent =>
                      IF DefaultOf(tool[p], n) = None
                      THEN ~HasKey(request[p].params, QueryName(n))
                      ELSE /\ CountKey(request[p].params, QueryName(n)) = 1
                           /\ GetItem(request[p].params, QueryName(n)) =
                                 DefaultOf(tool[p], n)
            /\ (/\ tool[p] = "historical_price_eod_full"
                /\ passed[p]["date_from"] = Absent
                /\ passed[p]["date_to"] = Absent) =>
                  /\ Keys(request[p].params) = {"symbol", "apikey"}
                  /\ Len(Items(request[p].params)) = 2
                  /\ GetItem(request[p].params, "symbol") = passed[p]["symbol"]

\* historical_price_eod_full(symbol) with no date range is on the wire
C4_Witness ==
    \E p \in Callers :
        /\ pc[p] = "awaiting"
        /\ tool[p] = "historical_price_eod_full"
        /\ passed[p]["date_from"] = Absent
        /\ passed[p]["date_to"] = Absent
        /\ Keys(request[p].params) = {"symbol", "apikey"}

\* C4 as first stated: no optional argument left out has a key on the wire
C4_AsStated ==
    \A p \in Callers :
        (HasRequested(p) /\ tool[p] \in NetworkTools) =>
            \A n \in OptionalParams(tool[p]) :
                passed[p][n] = Absent => ~HasKey(request[p].params, QueryName(n))

----------------------------------------------------------------------------
(* C5.  When the upstream responds with a non-2xx status code c (1xx, 3xx, *)
(* 4xx or 5xx), the invocation returns the HTTP-status failure envelope    *)
(* that names c ("HTTP error: 404" for 404) and never the response body    *)
(* as a success payload.                                                   *)
C5_StatusError ==
    \A p \in Callers :
        (/\ pc[p] \in {"returned", "raised"}
         /\ IsNetworkCall(p)
         /\ received[p].kind = "response"
         /\ (received[p].status < 200 \/ received[p].status > 299)) =>
            /\ result[p].kind = "return"
            /\ IsHttpError(result[p].value, received[p].status)
            /\ received[p].body[1] = "json-bytes" =>
                  result[p].value # received[p].body[2]

\* a 404 came back as the envelope "HTTP error: 404"
C5_Witness ==
    \E p \in Callers :
        /\ HasReturned(p)
        /\ received[p].kind = "response"
        /\ received[p].status = 404
        /\ GetItem(result[p].value, "error") = StrV("HTTP error: 404")

----------------------------------------------------------------------------
(* C6.  An invocation whose request cannot be completed (DNS failure,      *)
(* connection refused) or whose upstream does not answer within the        *)
(* 30-unit timeout eventually returns, and what it returns is the          *)
(* request-error envelope, never the http-error or unknown-error kind.     *)

TransportFailed(p) == received[p].kind \in {"connect_error", "timeout"}

C6_TransportErrorReturned ==
    \A p \in Callers :
        \* the suspended invocation is resumed and returns
        /\ (pc[p] = "awaiting") ~> (pc[p] = "returned")
        \* 30 units without an answer: it returns the request-error envelope
        /\ (pc[p] = "awaiting" /\ waited[p] = 30) ~>
              (/\ pc[p] = "returned"
               /\ received[p] = TimedOut
               /\ IsRequestError(result[p].value))
        \* a transport failure never comes back as anything else
        /\ []((pc[p] \in {"returned", "raised"} /\ TransportFailed(p)) =>
                 /\ pc[p] = "returned"
                 /\ IsRequestError(result[p].value))
        \* the timeout is the fixed 30 units
        /\ [](HasRequested(p) => request[p].timeout = 30)

\* an invocation that waited out the timeout has returned the request-error envelope
C6_Witness ==
    \E p \in Callers :
        /\ HasReturned(p)
        /\ received[p] = TimedOut
        /\ IsRequestError(result[p].value)
        /\ ~IsUnknownError(result[p].value)

----------------------------------------------------------------------------
(* C7.  Each invocation of a network tool issues exactly one outbound GET  *)
(* request, on success and on every kind of failure: a failed attempt is   *)
(* reported at once and never retried, and no invocation is answered       *)
(* without a request.                                                      *)
C7_ExactlyOneGet ==
    \A p \in Callers :
        /\ (IsNetworkCall(p) /\ pc[p] = "awaiting") =>
              /\ gets[p] = 1
              /\ request[p].method = "GET"
        /\ (IsNetworkCall(p) /\ pc[p] \in {"returned", "raised"}) =>
              /\ gets[p] = 1
              /\ request[p].method = "GET"
              /\ received[p] # NoOutcome
        /\ gets[p] <= 1

\* a failed attempt (connection refused) was reported after a single GET
C7_Witness ==
    \E p \in Callers :
        /\ HasReturned(p)
        /\ tool[p] = "stock_news_latest"
        /\ received[p].kind = "connect_error"
        /\ IsRequestError(result[p].value)
        /\ gets[p] = 1

----------------------------------------------------------------------------
(* C8.  ping() and when_should_i_use_fmp() issue no outbound request and   *)
(* return the same static structure on every call, whatever the configured *)
(* API key, the earlier invocations and the upstream's state.              *)
C8_StaticTools ==
    \A p \in Callers :
        tool[p] \in StaticTools =>
            /\ pc[p] = "returned"
            /\ gets[p] = 0
            /\ request[p] = NoRequest
            /\ received[p] = NoOutcome
            /\ ~Mentions(result[p].value, DEFAULT_API_KEY)
            /\ tool[p] = "ping" =>
                  result[p] = Return(Dict(<< <<"ok", BoolV(TRUE)>>,
                      <<"base_url", StrV("https://financialmodelingprep.com/stable")>> >>))
            /\ tool[p] = "when_should_i_use_fmp" =>
                  /\ result[p] = Return(when_should_i_use_fmp)
                  /\ Keys(result[p].value) = {"use_when", "avoid_when", "quick_map"}

\* ping has answered in a process configured with a key of its own
C8_Witness ==
    \E p \in Callers :
        /\ HasReturned(p)
        /\ tool[p] = "ping"
        /\ environ = StrV("sk-env")
        /\ GetItem(result[p].value, "ok") = BoolV(TRUE)

----------------------------------------------------------------------------
(* C9.  When the upstream call completes with a 2xx status and a body that *)
(* parses as JSON, every tool returns exactly that parsed body, unchanged  *)
(* and unwrapped.                                                          *)
C9_BodyReturnedUnchanged ==
    \A p \in Callers :
        (/\ pc[p] \in {"returned", "raised"}
         /\ IsNetworkCall(p)
         /\ ~OutcomeFails(received[p])) =>
            \E v \in JsonBodies :
                /\ received[p].body = <<"json-bytes", v>>
                /\ result[p] = [kind |-> "return", value |-> v]

\* company_profile got a one-record list from the upstream and returned it
C9_Witness ==
    \E p \in Callers :
        /\ HasReturned(p)
        /\ tool[p] = "company_profile"
        /\ received[p].kind = "response"
        /\ received[p].status = 200
        /\ received[p].body[1] = "json-bytes"
        /\ result[p].value = received[p].body[2]
        /\ result[p].value[1] = "list"
        /\ Len(result[p].value[2]) = 1

----------------------------------------------------------------------------
(* C10.  income_statement(symbol, limit, period) builds the mapping        *)
(* exactly {symbol, limit, period} (before authentication is added)        *)
(* against path 'income-statement'; balance_sheet, cash_flow and           *)
(* financial_ratios build the same mapping against their own paths; and no *)
(* two tools of the catalog target the same upstream path.                 *)

StatementTools == {"income_statement", "balance_sheet", "cash_flow", "financial_ratios"}

\* the upstream path of each tool, as the module's header lists them
ListedPath(t) ==
    CASE t = "company_profile"           -> <<"profile">>
      [] t = "income_statement"          -> <<"income-statement">>
      [] t = "balance_sheet"             -> <<"balance-sheet-statement">>
      [] t = "cash_flow"                 -> <<"cash-flow-statement">>
      [] t = "financial_ratios"          -> <<"ratios">>
      [] t = "historical_price_eod_full" -> <<"historical-price-eod", "/", "full">>
      [] t = "earnings_call_transcript"  -> <<"earning-call-transcript">>
      [] t = "economic_indicators"       -> <<"economic-indicators">>
      [] t = "economic_calendar"         -> <<"economic-calendar">>
      [] t = "stock_news_latest"         -> <<"news", "/", "stock-latest">>
      [] t = "stock_news_search"         -> <<"news", "/", "stock">>
      [] t = "insider_trading_latest"    -> <<"insider-trading", "/", "latest">>

\* the value the tool sees for parameter n: the caller's, or the default
Supplied(p, n, default) == IF passed[p][n] = Absent THEN default ELSE passed[p][n]

C10_StatementRequests ==
    /\ \A t1, t2 \in NetworkTools : ListedPath(t1) = ListedPath(t2) => t1 = t2
    /\ \A p \in Callers :
        (HasRequested(p) /\ tool[p] \in NetworkTools) =>
            /\ request[p].url =
                  <<"https://financialmodelingprep.com/stable", "/">> \o ListedPath(tool[p])
            /\ tool[p] \in StatementTools =>
                  request[p].params =
                      Dict(<< <<"symbol", passed[p]["symbol"]>>,
                              <<"limit", Supplied(p, "limit", IntV(5))>>,
                              <<"period", Supplied(p, "period", StrV("annual"))>>,
                              <<"apikey", DEFAULT_API_KEY>> >>)

\* income_statement("AAPL", 1, "quarter") is on the wire
C10_Witness ==
    \E p \in Callers :
        /\ pc[p] = "awaiting"
        /\ tool[p] = "income_statement"
        /\ passed[p]["symbol"] = StrV("AAPL")
        /\ passed[p]["limit"] = IntV(1)
        /\ passed[p]["period"] = StrV("quarter")
        /\ GetItem(request[p].params, "limit") = IntV(1)
        /\ GetItem(request[p].params, "period") = StrV("quarter")
        /\ request[p].url[3] = "income-statement"

----------------------------------------------------------------------------
(* C11.  Under any interleaving of concurrent invocations, each            *)
(* invocation's outbound request and its returned value are determined     *)
(* only by its own arguments, the configured API key and the upstream's    *)
(* answer to its own request; a step of one invocation reads and writes    *)
(* nothing of another; and the configured key is never modified after      *)
(* startup.                                                                *)

\* the request the invocation of p sends when it runs alone
OwnRequest(p) ==
    BuildRequest(CallMade(tool[p], passed[p]).call.endpoint,
                 CallMade(tool[p], passed[p]).call.params,
                 CallMade(tool[p], passed[p]).api_key,
                 ProcessWideKey)

\* every caller other than p is where it was
OthersUntouched(p) ==
    \A q \in ConcCallers \ {p} :
        /\ pc'[q] = pc[q]
        /\ tool'[q] = tool[q]
        /\ passed'[q] = passed[q]
        /\ request'[q] = request[q]
        /\ gets'[q] = gets[q]
        /\ waited'[q] = waited[q]
        /\ received'[q] = received[q]
        /\ result'[q] = result[q]

C11_Independent ==
    /\ [](\A p \in ConcCallers :
            /\ (IsNetworkCall(p) /\ pc[p] # "idle") =>
                  /\ request[p] = OwnRequest(p)
                  /\ gets[p] = 1
            /\ (IsNetworkCall(p) /\ pc[p] \in {"returned", "raised"}) =>
                  result[p] = Resume(OwnRequest(p), received[p])
            /\ (tool[p] \in StaticTools) => result[p] = Return(StaticBody(tool[p])))
    /\ [][\E p \in ConcCallers : OthersUntouched(p)]_vars
    /\ [][DEFAULT_API_KEY' = DEFAULT_API_KEY /\ environ' = environ]_vars
    /\ [](DEFAULT_API_KEY = ProcessWideKey)

\* two invocations are in flight at once, with different requests
C11_Witness ==
    /\ pc["c1"] = "awaiting"
    /\ pc["c2"] = "awaiting"
    /\ tool["c1"] = "company_profile"
    /\ tool["c2"] = "fmp_api_request"
    /\ waited["c1"] > 0
    /\ Keys(request["c1"].params) = {"symbol", "apikey"}
    /\ GetItem(request["c1"].params, "apikey") = ProcessWideKey
    /\ GetItem(request["c2"].params, "apikey") = StrV("sk-arg")

----------------------------------------------------------------------------
(* C12.  Every argument value the caller supplies to a tool, other than    *)
(* an empty string for a date, is forwarded on the outbound request under  *)
(* the tool's query-parameter name for it (date_from as 'from', date_to as *)
(* 'to', the others under their own name) with its value unchanged, 0 for  *)
(* limit or page included; a date supplied as the empty string is treated  *)
(* as not supplied and has no key on the request.                          *)

DateParams == {"date_from", "date_to", "date"}

\* the caller supplied a value for parameter n
SuppliedValue(p, n) == passed[p][n] # Absent /\ passed[p][n] # None

Forwarded(p, n) ==
    /\ CountKey(request[p].params, QueryName(n)) = 1
    /\ GetItem(request[p].params, QueryName(n)) = passed[p][n]

C12_ArgumentsForwarded ==
    \A p \in Callers :
        (HasRequested(p) /\ tool[p] \in NetworkTools) =>
            \A n \in DOMAIN passed[p] :
                SuppliedValue(p, n) =>
                    IF n \in DateParams /\ passed[p][n] = StrV("")
                    THEN ~HasKey(request[p].params, QueryName(n))
                    ELSE Forwarded(p, n)

\* earnings_call_transcript(..., limit=0) has limit=0 on the wire
C12_Witness ==
    \E p \in Callers :
        /\ pc[p] = "awaiting"
        /\ tool[p] = "earnings_call_transcript"
        /\ passed[p]["limit"] = IntV(0)
        /\ GetItem(request[p].params, "limit") = IntV(0)
        /\ GetItem(request[p].params, "year") = IntV(2024)

\* C12 as first stated: every supplied value is forwarded, the empty string
\* for a date included
C12_AsStated ==
    \A p \in Callers :
        (HasRequested(p) /\ tool[p] \in NetworkTools) =>
            \A n \in DOMAIN passed[p] : SuppliedValue(p, n) => Forwarded(p, n)

----------------------------------------------------------------------------
(* C13.  Failure classification is total and exclusive, with the           *)
(* precedence status error, then transport error, then unknown error:      *)
(* each failed invocation yields exactly one kind; a non-2xx response is a *)
(* status error whatever its body; a response with a success status whose  *)
(* body is not valid JSON, and any failure that is neither a status error  *)
(* nor a transport error, yields the unknown-error envelope.               *)

\* the kinds of failure envelope that value v is
KindsOf(v) ==
    {k \in {"http-error", "request-error", "unknown-error"} :
        \/ k = "http-error" /\ \E c \in StatusCodes : IsHttpError(v, c)
        \/ k = "request-error" /\ IsRequestError(v)
        \/ k = "unknown-error" /\ IsUnknownError(v)}

\* the kind the precedence assigns to a failed outcome
KindDue(o) ==
    IF o.kind = "response" /\ (o.status < 200 \/ o.status > 299) THEN "http-error"
    ELSE IF o.kind \in {"connect_error", "timeout"} THEN "request-error"
    ELSE "unknown-error"

C13_Classification ==
    \A p \in Callers :
        (/\ pc[p] \in {"returned", "raised"}
         /\ IsNetworkCall(p)
         /\ OutcomeFails(received[p])) =>
            /\ result[p].kind = "return"
            /\ KindsOf(result[p].value) = {KindDue(received[p])}

\* a 500 whose body is no JSON came back as a status error, not an unknown error
C13_Witness ==
    \E p \in Callers :
        /\ HasReturned(p)
        /\ received[p] = [kind |-> "response", status |-> 500, body |-> Garbage]
        /\ KindsOf(result[p].value) = {"http-error"}
        /\ GetItem(result[p].value, "error") = StrV("HTTP error: 500")

----------------------------------------------------------------------------
(* C14.  The value a network tool returns is a mapping with an 'error' key *)
(* whenever the upstream call failed; when the call succeeded it is the    *)
(* upstream's JSON body, so it is a mapping with an 'error' key exactly    *)
(* when that body is one.  A caller can tell success from failure by the   *)
(* returned value alone for every success body that is not itself a        *)
(* mapping with an 'error' key.                                            *)

HasErrorKey(v) == v[1] = "dict" /\ HasKey(v, "error")

C14_ErrorKey ==
    \A p \in Callers :
        (HasReturned(p) /\ IsNetworkCall(p)) =>
            HasErrorKey(result[p].value) <=>
                \/ OutcomeFails(received[p])
                \/ HasErrorKey(received[p].body[2])

\* a success whose value has no 'error' key, told apart from a failure
C14_Witness ==
    \E p \in Callers :
        /\ HasReturned(p)
        /\ tool[p] = "stock_news_search"
        /\ ~OutcomeFails(received[p])
        /\ result[p].value[1] = "list"
        /\ ~HasErrorKey(result[p].value)

\* C14 as first stated: an 'error' key if and only if the upstream call failed
C14_AsStated ==
    \A p \in Callers :
        (HasReturned(p) /\ IsNetworkCall(p)) =>
            (HasErrorKey(result[p].value) <=> OutcomeFails(received[p]))

----------------------------------------------------------------------------
(* C15.  For every failed invocation, no field of the returned failure     *)
(* envelope (neither the error kind nor the message text derived from the  *)
(* exception) contains the value of the API key that was put on the        *)
(* request.                                                                *)

SentKey(p) == GetItem(request[p].params, "apikey")

C15_NoKeyInFailure ==
    \A p \in Callers :
        (/\ HasReturned(p)
         /\ IsNetworkCall(p)
         /\ OutcomeFails(received[p])
         /\ SentKey(p) # StrV("")) =>
            ~Mentions(result[p].value, SentKey(p))

====
